---- MODULE Spec2Model ----
(***************************************************************************)
(* NowMesh: one mesh node (message_store, the ESP-NOW peer list, the       *)
(* outgoing message id), its receive pipeline (NowMesh::receiveData), its  *)
(* discovery cycle (NowMesh::scanDoneCallback), its senders (sendBroadcast,*)
(* sendTargeted, send) and the wire format they print and parse.           *)
(* Further on: three such nodes flooding one frame, and receiveData taken  *)
(* step by step while scan-done notifications arrive.                      *)
(*                                                                         *)
(* Byte strings are sequences of one-character strings; a MAC address is a *)
(* sequence of six bytes.                                                  *)
(***************************************************************************)
EXTENDS Integers, Sequences, FiniteSets, Bags, TLC

\* ---------------------------------------------------------------- sizes
\* NowMesh.h: #define STORED_MESSAGES 10, scaled down for model checking.
STORED_MESSAGES == 2
\* NowMesh.h: #define MAX_PEERS 10, scaled down for model checking.
MAX_PEERS == 2
\* NowMesh.h: #define MAX_MSG_LEN 65
MAX_MSG_LEN == 65
\* Number of send() calls explored in one behaviour.
MaxSends == 1
\* Number of access points reported by one scan.
MaxAPs == 3
MaxMeshSteps == 6

\* ------------------------------------------------------------ addresses
ZeroMac == <<0, 0, 0, 0, 0, 0>>
SelfMac == <<26, 254, 52, 0, 0, 1>>
MacA    == <<26, 254, 52, 0, 0, 10>>
MacB    == <<94, 207, 127, 255, 9, 0>>
MacC    == <<94, 207, 127, 1, 2, 3>>

\* memcmp(a, b, 6) == 0
MacEq(a, b) == a = b

\* ----------------------------------------------------------- characters
Digits == <<"0", "1", "2", "3", "4", "5", "6", "7", "8", "9">>

IsDigit(c) == \E d \in 1..10 : Digits[d] = c

DigitVal(c) == (CHOOSE d \in 1..10 : Digits[d] = c) - 1

\* Conversion to the unsigned integer types of the fields.
ToUint8(n) == n % 256

ToUint16(n) == n % 65536

\* Conversion to int16_t (two's complement).
ToInt16(n) == ((n + 32768) % 65536) - 32768

\* printf("%u", n) for n >= 0
RECURSIVE FormatU(_)
FormatU(n) == IF n < 10 THEN <<Digits[n + 1]>>
              ELSE FormatU(n \div 10) \o <<Digits[(n % 10) + 1]>>

\* Joins the fields with commas, as the format strings of sendBroadcast and
\* sendTargeted do.
RECURSIVE JoinComma(_)
JoinComma(fields) ==
    IF Len(fields) = 0 THEN <<>>
    ELSE IF Len(fields) = 1 THEN fields[1]
    ELSE fields[1] \o <<",">> \o JoinComma(Tail(fields))

\* strtok(buffer, ","): the maximal runs of non-comma characters, in order;
\* leading, trailing and repeated commas produce no token.
RECURSIVE StrtokFrom(_, _, _)
StrtokFrom(s, i, cur) ==
    IF i > Len(s) THEN (IF cur = <<>> THEN <<>> ELSE <<cur>>)
    ELSE IF s[i] = ","
         THEN (IF cur = <<>> THEN <<>> ELSE <<cur>>) \o StrtokFrom(s, i + 1, <<>>)
         ELSE StrtokFrom(s, i + 1, Append(cur, s[i]))

Strtok(s) == StrtokFrom(s, 1, <<>>)

\* The value of the leading run of digits of s from position i on.
RECURSIVE DigitsValue(_, _, _)
DigitsValue(s, i, acc) ==
    IF i > Len(s) \/ ~IsDigit(s[i]) THEN acc
    ELSE DigitsValue(s, i + 1, acc * 10 + DigitVal(s[i]))

\* String(token).toInt(): atol - an optional sign and the leading digits;
\* 0 when the token does not start with a number.
ToInt(tok) ==
    IF Len(tok) = 0 THEN 0
    ELSE IF tok[1] = "-" THEN 0 - DigitsValue(tok, 2, 0)
    ELSE IF tok[1] = "+" THEN DigitsValue(tok, 2, 0)
    ELSE DigitsValue(tok, 1, 0)

\* ---------------------------------------------------------------- frames
\* esp_now_send(NULL, ...) sends to all peers.
NULL == <<>>

HI == <<"h", "i", "!">>

\* message_info: a slot of message_store; static storage starts zeroed.
EmptySlot == [originator |-> ZeroMac, sender |-> ZeroMac, id |-> 0]

\* sprintf(data, "1,%u,%u,%u,%u,%u,%u,0,0,0,0,0,0,%u,%s", ...)
SprintfBroadcast(message, originator, message_id) ==
    JoinComma(<<<<"1">>>>
              \o [i \in 1..6 |-> FormatU(originator[i])]
              \o [i \in 1..6 |-> <<"0">>]
              \o <<FormatU(message_id)>>)
    \o <<",">> \o message

\* sprintf(data, "2,%u,%u,%u,%u,%u,%u,%u,%u,%u,%u,%u,%u,%u,%s", ...)
SprintfTargeted(message, originator, target, message_id) ==
    JoinComma(<<<<"2">>>>
              \o [i \in 1..6 |-> FormatU(originator[i])]
              \o [i \in 1..6 |-> FormatU(target[i])]
              \o <<FormatU(message_id)>>)
    \o <<",">> \o message

\* The fields receiveData assigns in its switch, token by token (pos 0..14).
ParseFields(tokens) ==
    [message_type |-> ToUint8(ToInt(tokens[1])),
     originator   |-> [i \in 1..6 |-> ToUint8(ToInt(tokens[1 + i]))],
     target       |-> [i \in 1..6 |-> ToUint8(ToInt(tokens[7 + i]))],
     message_id   |-> ToUint16(ToInt(tokens[14])),
     message      |-> tokens[15]]

\* sendMessage(target, data): one call of esp_now_send.
sendMessage(target, data) == [target |-> target, data |-> data]

\* A broadcast that names the relaying node as the originator.
sendBroadcastAsSelf(message, originator, message_id) ==
    sendMessage(NULL, SprintfBroadcast(message, SelfMac, message_id))

sendBroadcast(message, originator, message_id) ==
    sendMessage(NULL, SprintfBroadcast(message, originator, message_id))

\* A route search that does not ask whether the sender is still a peer.
RECURSIVE RouteFromAnySender(_, _, _, _)
RouteFromAnySender(store, prs, target, i) ==
    IF i >= STORED_MESSAGES THEN NULL
    ELSE IF ~(store[i].id > 0) THEN NULL
    ELSE IF MacEq(store[i].originator, target) \/ MacEq(store[i].sender, target)
         THEN store[i].sender
         ELSE RouteFromAnySender(store, prs, target, i + 1)

\* The route search of sendTargeted: the sender of the first slot, in storage
\* order, that has originator or sender equal to the target and whose sender
\* is a peer; the search ends at the first slot with id 0. NULL: no route.
RECURSIVE RouteFrom(_, _, _, _)
RouteFrom(store, prs, target, i) ==
    IF i >= STORED_MESSAGES THEN NULL
    ELSE IF ~(store[i].id > 0) THEN NULL
    ELSE IF (MacEq(store[i].originator, target) \/ MacEq(store[i].sender, target))
            /\ store[i].sender \in prs
         THEN store[i].sender
         ELSE RouteFrom(store, prs, target, i + 1)

\* The highest index i at which the route search of sendTargeted evaluates
\* message_store[i]. The loop condition reads message_store[i].id before it
\* tests i < STORED_MESSAGES, so a search that runs off the end reads index
\* STORED_MESSAGES; whatever that read yields, the bound test ends the loop.
RECURSIVE RouteLastIndex(_, _, _, _)
RouteLastIndex(store, prs, target, i) ==
    IF i >= STORED_MESSAGES THEN i
    ELSE IF ~(store[i].id > 0) THEN i
    ELSE IF (MacEq(store[i].originator, target) \/ MacEq(store[i].sender, target))
            /\ store[i].sender \in prs
         THEN i
         ELSE RouteLastIndex(store, prs, target, i + 1)

sendTargeted(store, prs, message, originator, target, message_id) ==
    sendMessage(RouteFrom(store, prs, target, 0),
                SprintfTargeted(message, originator, target, message_id))

\* The dedup scan of receiveData: -1 when a stored message has this id and
\* originator, else msg_i, the index of the first slot with id 0
\* (STORED_MESSAGES when there is none).
RECURSIVE DedupScan(_, _, _, _)
DedupScan(store, originator, message_id, msg_i) ==
    IF msg_i < STORED_MESSAGES /\ store[msg_i].id > 0
    THEN IF store[msg_i].id = message_id /\ MacEq(store[msg_i].originator, originator)
         THEN -1
         ELSE DedupScan(store, originator, message_id, msg_i + 1)
    ELSE msg_i

\* The highest index at which the dedup scan of receiveData evaluates
\* message_store[msg_i]; the bound is tested first. -1: no slot was read.
RECURSIVE DedupLastIndex(_, _, _, _)
DedupLastIndex(store, originator, message_id, msg_i) ==
    IF msg_i < STORED_MESSAGES
    THEN IF store[msg_i].id > 0
            /\ ~(store[msg_i].id = message_id
                 /\ MacEq(store[msg_i].originator, originator))
         THEN DedupLastIndex(store, originator, message_id, msg_i + 1)
         ELSE msg_i
    ELSE msg_i - 1

\* The shift of receiveData followed by the store at index 0.
ShiftAndStore(store, msg_i, entry) ==
    LET top == IF msg_i = STORED_MESSAGES THEN msg_i - 1 ELSE msg_i
    IN  [i \in 0..(STORED_MESSAGES - 1) |->
            IF i = 0 THEN entry
            ELSE IF i <= top THEN store[i - 1]
            ELSE store[i]]

\* The flag receiveData passes to receiveCallback.
CallbackFlag(target_is_self) == ~target_is_self

\* A forwarding step that also relays the frames targeted at this node.
ForwardEvenIfLocal(self, store, prs, f) ==
    IF f.message_type = 1
    THEN <<sendBroadcast(f.message, f.originator, f.message_id)>>
    ELSE IF f.message_type = 2
         THEN <<sendTargeted(store, prs, f.message, f.originator, f.target, f.message_id)>>
    ELSE <<>>

\* The frames receiveData hands to the radio once a message is stored.
Forward(self, store, prs, f) ==
    IF MacEq(f.target, self) THEN <<>>
    ELSE IF f.message_type = 1
         THEN <<sendBroadcast(f.message, f.originator, f.message_id)>>
    ELSE IF f.message_type = 2
         THEN <<sendTargeted(store, prs, f.message, f.originator, f.target, f.message_id)>>
    ELSE <<>>

\* A delivery step that keeps relayed targeted frames from the application.
DeliverUnlessRelayed(self, f) ==
    IF f.message_type = 2 /\ ~MacEq(f.target, self) THEN <<>>
    ELSE <<[message |-> f.message,
            self_is_target |-> CallbackFlag(MacEq(f.target, self)),
            originator |-> f.originator]>>

\* The calls of receiveCallback receiveData makes once a message is stored.
Deliver(self, f) ==
    <<[message |-> f.message,
       self_is_target |-> CallbackFlag(MacEq(f.target, self)),
       originator |-> f.originator]>>

\* The highest index of message_store the forwarding step evaluates.
ForwardLastIndex(self, store, prs, f) ==
    IF ~MacEq(f.target, self) /\ f.message_type = 2
    THEN RouteLastIndex(store, prs, f.target, 0)
    ELSE -1

\* The highest index of message_store the shift and the store at index 0
\* write, msg_i being the result of the dedup scan.
ShiftLastIndex(msg_i) == IF msg_i = STORED_MESSAGES THEN msg_i - 1 ELSE msg_i

Max2(a, b) == IF a >= b THEN a ELSE b

\* The bytes strcpy writes to received_buffer: the len characters of the
\* frame and the terminating NUL.
StrcpyBytes(data) == Len(data) + 1

\* The bytes sprintf writes to data[] in sendBroadcast / sendTargeted: the
\* characters of the frame and the terminating NUL; the largest of the
\* frames in tx, 0 when there is none.
RECURSIVE SprintfBytes(_)
SprintfBytes(tx) ==
    IF tx = <<>> THEN 0
    ELSE Max2(Len(Head(tx).data) + 1, SprintfBytes(Tail(tx)))

\* A token check that lets frames with extra tokens through.
TokenCountAtLeast(pos) == pos >= 15

\* if (pos != 15) return; negated.
TokenCountOk(pos) == pos = 15

\* NowMesh::receiveData(mac, data, len), len = Len(data): the new
\* message_store, how the frame left the pipeline, the callbacks made and the
\* radio sends made.
receiveData(self, store, prs, mac, data) ==
    LET dropped(why, idx, rx) ==
            [store |-> store, outcome |-> why, cb |-> <<>>, tx |-> <<>>,
             index |-> idx, rx_bytes |-> rx]
        tokens == Strtok(data)
    IN  IF Len(data) > MAX_MSG_LEN THEN dropped("too_long", -1, 0)
        ELSE IF ~TokenCountOk(Len(tokens))
             THEN dropped("bad_tokens", -1, StrcpyBytes(data))
        ELSE LET f == ParseFields(tokens)
                 msg_i == DedupScan(store, f.originator, f.message_id, 0)
                 scanned == DedupLastIndex(store, f.originator, f.message_id, 0)
                 stored == ShiftAndStore(store, msg_i,
                              [originator |-> f.originator, sender |-> mac,
                               id |-> f.message_id])
             IN  IF MacEq(f.originator, self)
                 THEN dropped("self_echo", -1, StrcpyBytes(data))
                 ELSE IF msg_i = -1
                 THEN dropped("already_stored", scanned, StrcpyBytes(data))
                 ELSE [store |-> stored, outcome |-> "stored",
                       cb |-> Deliver(self, f), tx |-> Forward(self, stored, prs, f),
                       index |-> Max2(Max2(scanned, ShiftLastIndex(msg_i)),
                                      ForwardLastIndex(self, stored, prs, f)),
                       rx_bytes |-> StrcpyBytes(data)]

\* ------------------------------------------------------------- discovery
Abs(n) == IF n < 0 THEN 0 - n ELSE n

\* peer_info: a slot of the peer_store local to scanDoneCallback.
EmptyPeer == [mac |-> ZeroMac, score |-> 0]

\* A scoring loop that counts a slot twice when originator and sender both match.
RECURSIVE HistoryBonusPerField(_, _, _)
HistoryBonusPerField(store, bssid, i) ==
    IF i >= STORED_MESSAGES THEN 0
    ELSE (IF MacEq(bssid, store[i].originator) THEN 20 ELSE 0)
         + (IF MacEq(bssid, store[i].sender) THEN 20 ELSE 0)
         + HistoryBonusPerField(store, bssid, i + 1)

\* The slots of message_store the scoring loop counts for a bssid.
RECURSIVE HistoryBonus(_, _, _)
HistoryBonus(store, bssid, i) ==
    IF i >= STORED_MESSAGES THEN 0
    ELSE (IF MacEq(bssid, store[i].originator) \/ MacEq(bssid, store[i].sender)
          THEN 20 ELSE 0)
         + HistoryBonus(store, bssid, i + 1)

\* int16_t score = 128 - abs(rssi), then += 20 per matching stored message.
ApScore(store, ap) == ToInt16(128 - Abs(ap.rssi) + HistoryBonus(store, ap.bssid, 0))

\* The loop over peer_store that picks the slot to store a found peer in:
\* the first slot whose score is not positive, else the last slot that beat
\* both the found peer's score and the worst score so far; -1 when none.
RECURSIVE FindCandidate(_, _, _, _, _)
FindCandidate(peer_store, score, i, candidate, worst_score) ==
    IF i >= MAX_PEERS THEN candidate
    ELSE IF ~(peer_store[i].score > 0) THEN i
    ELSE IF peer_store[i].score < score /\ peer_store[i].score < worst_score
         THEN FindCandidate(peer_store, score, i + 1, i, peer_store[i].score)
         ELSE FindCandidate(peer_store, score, i + 1, candidate, worst_score)

\* One iteration of the loop over the found access points.
StoreAp(store, peer_store, ap) ==
    IF ~ap.esp THEN peer_store
    ELSE LET score == ApScore(store, ap)
             candidate == FindCandidate(peer_store, score, 0, -1, 0)
         IN  IF candidate >= 0
             THEN [peer_store EXCEPT ![candidate] = [mac |-> ap.bssid, score |-> score]]
             ELSE peer_store

\* The whole loop over the tail queue of found access points.
RECURSIVE BuildPeerStore(_, _, _, _)
BuildPeerStore(store, peer_store, aps, k) ==
    IF k > Len(aps) THEN peer_store
    ELSE BuildPeerStore(store, StoreAp(store, peer_store, aps[k]), aps, k + 1)

\* The peer list after the add loop and the purge loop.
SyncPeers(prs, peer_store) ==
    LET added == prs \cup {peer_store[i].mac : i \in {j \in 0..(MAX_PEERS - 1) :
                                                       peer_store[j].score > 0}}
    IN  {p \in added : \E i \in 0..(MAX_PEERS - 1) : MacEq(p, peer_store[i].mac)}

\* peer_store is a local array of scanDoneCallback that is never initialized:
\* it starts with whatever the stack holds. A slot can hold zeroes, a stale
\* entry with a positive score, or a stale address with a score that is not
\* positive.
ZeroedStack == [i \in 0..(MAX_PEERS - 1) |-> EmptyPeer]

StaleSlots == {EmptyPeer, [mac |-> MacC, score |-> 7], [mac |-> MacB, score |-> -1]}

\* The stack contents in which every slot holds the same stale entry.
UniformStacks == {[i \in 0..(MAX_PEERS - 1) |-> slot] : slot \in StaleSlots}

\* NowMesh::scanDoneCallback(arg, status): the peer_store it builds on the
\* stack contents it finds, the peer list it leaves and the score it computes
\* (and logs) for each found access point with the ESP_ prefix.
scanDoneCallback(store, prs, stack, aps, status) ==
    IF status # "OK"
    THEN [peer_store |-> stack, peers |-> prs, scores |-> <<>>]
    ELSE LET peer_store == BuildPeerStore(store, stack, aps, 1)
         IN  [peer_store |-> peer_store, peers |-> SyncPeers(prs, peer_store),
              scores |-> [k \in 1..Len(aps) |->
                            IF aps[k].esp THEN ApScore(store, aps[k]) ELSE 0]]

\* ----------------------------------------------------------------- state
VARIABLES
    message_store,    \* NowMesh::message_store, indexed 0..STORED_MESSAGES-1
    peers,            \* the ESP-NOW peer list (esp_now_add_peer / esp_now_del_peer)
    last_message_id,  \* NowMesh::last_message_id
    op,               \* the operation that ran last
    last,             \* the frame it handled (received or originated), the
                      \* neighbour it came from, and whether its key was known
    outcome,          \* how receiveData left the pipeline
    cb,               \* the calls of receiveCallback the operation made
    tx,               \* the calls of esp_now_send the operation made
    scan,             \* input and results of scanDoneCallback when it ran last
    admitted,         \* the messages receiveData stored, newest first, at most
                      \* STORED_MESSAGES of them
    codec,            \* a frame on its way through the encoder and the tokenizer
    mem,              \* what the last operation did to memory: the highest
                      \* index of message_store it evaluated and the bytes it
                      \* wrote to received_buffer and to data[]
    mesh,             \* three nodes running this code, and the frames on the
                      \* air between them
    async,            \* a receiveData call that has reached its shift loop
    app               \* what the application has called so far (begin and the
                      \* two callback setters), and the empty callback that
                      \* was called, if one was

vars == <<message_store, peers, last_message_id, op, last, outcome, cb, tx, scan,
          admitted, codec, mem, mesh, async, app>>

NoFrame == [kind |-> 0, originator |-> ZeroMac, target |-> ZeroMac, id |-> 0,
            payload |-> <<>>]

NoLast == [mac |-> ZeroMac, frame |-> NoFrame, seen |-> FALSE, fresh |-> FALSE]

NoScan == [status |-> "none", aps |-> <<>>, scores |-> <<>>,
           stack |-> ZeroedStack, peer_store |-> ZeroedStack]

NoFields == [message_type |-> 0, originator |-> ZeroMac, target |-> ZeroMac,
             message_id |-> 0, message |-> <<>>]

NoCodec == [stage |-> "none", frame |-> NoFrame, data |-> <<>>, pos |-> 0,
            fields |-> NoFields]

\* The application as the example sketch leaves it at the end of setup():
\* begin() has registered the radio callbacks and both callback setters
\* have been called.
AppReady == [begun |-> TRUE, receive_set |-> TRUE, send_set |-> TRUE,
             empty_call |-> "none"]

\* The application right after NowMesh::NowMesh(): nothing registered, both
\* std::function members empty.
AppConstructed == [begun |-> FALSE, receive_set |-> FALSE, send_set |-> FALSE,
                   empty_call |-> "none"]

NoMem == [index |-> -1, rx_bytes |-> 0, tx_bytes |-> 0]

EmptyStore == [i \in 0..(STORED_MESSAGES - 1) |-> EmptySlot]

\* Three nodes in radio range of each other, each one running this code with
\* its own address; every node has the two others as peers.
MeshNodes == {SelfMac, MacA, MacB}

MeshPeers(n) == MeshNodes \ {n}

NoMesh == [store |-> [n \in MeshNodes |-> EmptyStore], air |-> EmptyBag,
           forwards |-> [n \in MeshNodes |-> 0],
           deliveries |-> [n \in MeshNodes |-> 0],
           sent |-> FALSE, steps |-> 0]

NoAsync == [pc |-> "idle", msg_i |-> 0, top |-> 0, entry |-> EmptySlot,
            frame |-> NoFrame, before |-> EmptyStore]

\* The bytes a node puts on the air for a frame (sendBroadcast / sendTargeted).
Encode(f) ==
    IF f.kind = 1 THEN SprintfBroadcast(f.payload, f.originator, f.id)
    ELSE SprintfTargeted(f.payload, f.originator, f.target, f.id)

\* The (originator, id) keys of a sequence or array of stored messages.
Keys(entries) == {<<entries[i].originator, entries[i].id>> : i \in DOMAIN entries}

\* The node after construction: zeroed static storage, no peers, id counter 0.
InitNode ==
    /\ message_store = EmptyStore
    /\ peers = {}
    /\ last_message_id = 0
    /\ op = "init"
    /\ last = NoLast
    /\ outcome = "none"
    /\ cb = <<>>
    /\ tx = <<>>
    /\ scan = NoScan
    /\ admitted = <<>>
    /\ codec = NoCodec
    /\ mem = NoMem
    /\ mesh = NoMesh
    /\ async = NoAsync

\* State after construction and the setup() of the example sketch.
Init == InitNode /\ app = AppReady

\* The radio delivers the frame f, relayed by the neighbour mac.
Receive(f, mac) ==
    \E r \in {receiveData(SelfMac, message_store, peers, mac, Encode(f))} :
        /\ app.begun
        /\ app.empty_call = "none"
        /\ app' = [app EXCEPT !.empty_call =
                      IF r.cb # <<>> /\ ~app.receive_set THEN "receiveCallback"
                      ELSE @]
        /\ message_store' = r.store
        /\ op' = "receive"
        /\ last' = [mac |-> mac, frame |-> f,
                    seen |-> <<f.originator, f.id>> \in Keys(admitted),
                    fresh |-> <<f.originator, f.id>> \notin
                                  (Keys(admitted) \cup Keys(message_store))]
        /\ outcome' = r.outcome
        /\ cb' = r.cb
        /\ tx' = r.tx
        /\ scan' = NoScan
        /\ admitted' = IF r.outcome = "stored"
                       THEN SubSeq(<<r.store[0]>> \o admitted, 1,
                                   IF Len(admitted) < STORED_MESSAGES
                                   THEN Len(admitted) + 1 ELSE STORED_MESSAGES)
                       ELSE admitted
        /\ mem' = [index |-> r.index, rx_bytes |-> r.rx_bytes,
                   tx_bytes |-> SprintfBytes(r.tx)]
        /\ UNCHANGED <<peers, last_message_id, codec, mesh, async>>

\* The scan started by scanForPeers completes with the found access points.
ScanDone(aps, status, stack) ==
    \E r \in {scanDoneCallback(message_store, peers, stack, aps, status)} :
        /\ peers' = r.peers
        /\ op' = "scan"
        /\ scan' = [status |-> status, aps |-> aps, scores |-> r.scores,
                    stack |-> stack, peer_store |-> r.peer_store]
        /\ last' = NoLast
        /\ outcome' = "none"
        /\ cb' = <<>>
        /\ tx' = <<>>
        /\ mem' = [NoMem EXCEPT !.index =
                      IF status = "OK" /\ \E k \in DOMAIN aps : aps[k].esp
                      THEN STORED_MESSAGES - 1 ELSE -1]
        /\ UNCHANGED <<message_store, last_message_id, admitted, codec, mesh, async, app>>

\* A send that also records its frame in the ledger, sender and originator
\* being the node itself.
SendRecording(message) ==
    \E id \in {ToUint16(last_message_id + 1)} :
        /\ last_message_id' = id
        /\ op' = "send"
        /\ message_store' = ShiftAndStore(message_store,
                                DedupScan(message_store, SelfMac, id, 0) ,
                                [originator |-> SelfMac, sender |-> SelfMac, id |-> id])
        /\ tx' = <<sendBroadcast(message, SelfMac, id)>>
        /\ last' = [NoLast EXCEPT !.mac = SelfMac,
                       !.frame = [kind |-> 1, originator |-> SelfMac,
                                  target |-> ZeroMac, id |-> id, payload |-> message]]
        /\ outcome' = "none"
        /\ cb' = <<>>
        /\ scan' = NoScan
        /\ mem' = [NoMem EXCEPT !.tx_bytes = SprintfBytes(tx')]
        /\ UNCHANGED <<peers, admitted, codec, mesh, async, app>>

\* NowMesh::send(message)
Send(message) ==
    \E id \in {ToUint16(last_message_id + 1)} :
        /\ last_message_id' = id
        /\ op' = "send"
        /\ tx' = <<sendBroadcast(message, SelfMac, id)>>
        /\ last' = [NoLast EXCEPT !.mac = SelfMac,
                       !.frame = [kind |-> 1, originator |-> SelfMac,
                                  target |-> ZeroMac, id |-> id, payload |-> message]]
        /\ outcome' = "none"
        /\ cb' = <<>>
        /\ scan' = NoScan
        /\ mem' = [NoMem EXCEPT !.tx_bytes = SprintfBytes(tx')]
        /\ UNCHANGED <<message_store, peers, admitted, codec, mesh, async, app>>

\* NowMesh::send(message, target)
SendTo(message, target) ==
    \E id \in {ToUint16(last_message_id + 1)} :
        /\ last_message_id' = id
        /\ op' = "sendTo"
        /\ tx' = <<sendTargeted(message_store, peers, message, SelfMac, target, id)>>
        /\ last' = [NoLast EXCEPT !.mac = SelfMac,
                       !.frame = [kind |-> 2, originator |-> SelfMac,
                                  target |-> target, id |-> id, payload |-> message]]
        /\ outcome' = "none"
        /\ cb' = <<>>
        /\ scan' = NoScan
        /\ mem' = [index |-> RouteLastIndex(message_store, peers, target, 0),
                   rx_bytes |-> 0, tx_bytes |-> SprintfBytes(tx')]
        /\ UNCHANGED <<message_store, peers, admitted, codec, mesh, async, app>>

\* ---------------------------------------------------------------- inputs
BroadcastFrame(o, n, p) ==
    [kind |-> 1, originator |-> o, target |-> ZeroMac, id |-> n, payload |-> p]

TargetedFrame(o, t, n, p) ==
    [kind |-> 2, originator |-> o, target |-> t, id |-> n, payload |-> p]

\* A payload of n bytes.
LongPayload(n) == [i \in 1..n |-> "x"]

\* A radio delivery: the frame and the neighbour it arrives from.
Rx(f, mac) == [frame |-> f, mac |-> mac]

\* An access point found by the scan: "ESP_" prefix or not, bssid, rssi.
AP(esp, bssid, rssi) == [esp |-> esp, bssid |-> bssid, rssi |-> rssi]

\* Deliveries to the receive pipeline: frames of two remote originators, one
\* of them over two different last hops, ids 0..3, targeted at this node and
\* at another one; an echo of the node's own frame; frames with an empty
\* payload, with a comma in the payload and with an oversize payload.
RxInputs ==
    {Rx(BroadcastFrame(MacA, 0, HI), MacA),
     Rx(BroadcastFrame(MacA, 1, HI), MacA),
     Rx(BroadcastFrame(MacA, 1, HI), MacB),
     Rx(BroadcastFrame(MacB, 1, HI), MacB),
     Rx(TargetedFrame(MacB, SelfMac, 2, HI), MacB),
     Rx(TargetedFrame(MacB, MacC, 3, HI), MacB),
     Rx(BroadcastFrame(SelfMac, 1, HI), MacA),
     Rx(BroadcastFrame(MacB, 2, <<>>), MacB),
     Rx(BroadcastFrame(MacB, 2, <<"a", ",", "b">>), MacB),
     Rx(TargetedFrame(MacB, SelfMac, 2, LongPayload(40)), MacB)}

\* Scans that make MacA a peer and drop it again; one names a router without
\* the ESP_ prefix.
RxScans == {<<>>, <<AP(FALSE, MacB, -20), AP(TRUE, MacA, -60)>>}

Next ==
    \/ \E in \in RxInputs : Receive(in.frame, in.mac)
    \/ \E aps \in RxScans, status \in {"OK", "FAIL"}, stack \in UniformStacks :
          ScanDone(aps, status, stack)

\* The receive pipeline of one node, with scans changing its peer list.
Spec == Init /\ [][Next]_vars

\* ------------------------------------------------ receive pipeline claims
\* The frame passes the length check and the token count check of receiveData.
PassesValidation(f) ==
    /\ Len(Encode(f)) <= MAX_MSG_LEN
    /\ Len(Strtok(Encode(f))) = 15

\* The last operation received a frame that reached the dedup gate.
AtDedupGate ==
    /\ op = "receive"
    /\ PassesValidation(last.frame)
    /\ last.frame.originator # SelfMac

\* The ledger entry a receipt of the last frame makes.
LastEntry ==
    [originator |-> last.frame.originator, sender |-> last.mac, id |-> last.frame.id]

\* C1: a receipt of a frame whose (originator, messageId) is among the
\* STORED_MESSAGES most recently admitted ones is classified AlreadySeen: it
\* adds no ledger entry, calls no callback and sends nothing.
C1_SecondReceiptAlreadySeen ==
    [][(op' = "receive" /\ PassesValidation(last'.frame)
          /\ last'.frame.originator # SelfMac /\ last'.seen)
       => (/\ outcome' = "already_stored"
           /\ message_store' = message_store
           /\ cb' = <<>>
           /\ tx' = <<>>)]_vars

\* C2: the flag handed to the receive callback is true exactly when the frame
\* was Targeted and its target is the local address.
C2_FlagIffTargetedAtSelf ==
    op = "receive" =>
        \A i \in DOMAIN cb :
            cb[i].self_is_target
                <=> (last.frame.kind = 2 /\ last.frame.target = SelfMac)

\* C3 as stated: a never-seen Targeted frame for another node is forwarded and
\* is not delivered to the application.
C3_RelayedTargetedNotDelivered ==
    (AtDedupGate /\ last.fresh /\ last.frame.kind = 2 /\ last.frame.target # SelfMac)
        => (Len(tx) = 1 /\ cb = <<>>)

\* C3 amended: a never-seen Targeted frame for another node is forwarded by
\* one radio send of the same frame and is also delivered to the application,
\* once; the callback is called once for every frame that is stored, and for
\* no other.
C3_RelayedTargetedForwardedAndDelivered ==
    /\ (AtDedupGate /\ last.fresh /\ last.frame.kind = 2 /\ last.frame.target # SelfMac)
          => (/\ outcome = "stored"
              /\ Len(tx) = 1
              /\ tx[1].data = Encode(last.frame)
              /\ Len(cb) = 1
              /\ cb[1].message = last.frame.payload
              /\ cb[1].originator = last.frame.originator)
    /\ op = "receive" => (Len(cb) = (IF outcome = "stored" THEN 1 ELSE 0))

C3_Witness ==
    /\ AtDedupGate /\ last.fresh /\ last.frame.kind = 2 /\ last.frame.target # SelfMac
    /\ Len(tx) = 1 /\ Len(cb) = 1

\* C4: a never-seen Targeted frame for this node is recorded in the ledger,
\* delivered to the application once and not handed to the radio.
C4_LocalTargetedDeliveredOnly ==
    (AtDedupGate /\ last.fresh /\ last.frame.kind = 2 /\ last.frame.target = SelfMac)
        => (/\ outcome = "stored"
            /\ message_store[0] = LastEntry
            /\ Len(cb) = 1
            /\ cb[1].message = last.frame.payload
            /\ cb[1].originator = last.frame.originator
            /\ tx = <<>>)

C4_Witness ==
    /\ AtDedupGate /\ last.fresh /\ last.frame.kind = 2 /\ last.frame.target = SelfMac
    /\ message_store[0] = LastEntry /\ Len(cb) = 1 /\ tx = <<>>

\* C5: a never-seen Broadcast frame of another originator is recorded with
\* its originator, last hop and id, delivered to the application once with its
\* payload and originator, and re-broadcast once with the same originator, id
\* and payload.
C5_BroadcastRecordedDeliveredRebroadcast ==
    (AtDedupGate /\ last.fresh /\ last.frame.kind = 1)
        => (/\ outcome = "stored"
            /\ message_store[0] = LastEntry
            /\ Len(cb) = 1
            /\ cb[1].message = last.frame.payload
            /\ cb[1].originator = last.frame.originator
            /\ Len(tx) = 1
            /\ tx[1].target = NULL
            /\ tx[1].data = SprintfBroadcast(last.frame.payload,
                                             last.frame.originator, last.frame.id))

C5_Witness ==
    /\ AtDedupGate /\ last.fresh /\ last.frame.kind = 1
    /\ last.mac # last.frame.originator
    /\ message_store[0] = LastEntry /\ Len(cb) = 1 /\ Len(tx) = 1

\* C6: the ledger holds exactly the admitted messages, at most the
\* STORED_MESSAGES most recent of them, newest first, and nothing else.
C6_LedgerIsMostRecentAdmitted ==
    \A i \in 0..(STORED_MESSAGES - 1) :
        message_store[i] = (IF i < Len(admitted) THEN admitted[i + 1] ELSE EmptySlot)

\* C8: a frame dropped for its length, its token count or as an echo of the
\* node's own frame leaves the ledger and the peer list as they were, calls no
\* callback and sends nothing.
C8_EarlyDropChangesNothing ==
    [][(op' = "receive"
          /\ (~PassesValidation(last'.frame) \/ last'.frame.originator = SelfMac))
       => (/\ message_store' = message_store
           /\ peers' = peers
           /\ cb' = <<>>
           /\ tx' = <<>>)]_vars

C8_Witness ==
    /\ op = "receive"
    /\ Len(Encode(last.frame)) <= MAX_MSG_LEN
    /\ Len(Strtok(Encode(last.frame))) = 14
    /\ Len(admitted) = STORED_MESSAGES
    /\ peers # {}

\* ------------------------------------------------------------- routing
\* Deliveries that leave route hints for MacB (as originator, over two
\* different last hops, one with id 0), bring Targeted frames to relay and
\* bring back the echo of the node's own first Broadcast.
RouteInputs ==
    {Rx(BroadcastFrame(MacB, 1, HI), MacB),
     Rx(BroadcastFrame(MacB, 2, HI), MacA),
     Rx(BroadcastFrame(MacB, 0, HI), MacB),
     Rx(TargetedFrame(MacA, MacB, 1, HI), MacA),
     Rx(TargetedFrame(MacA, MacC, 2, HI), MacA),
     Rx(BroadcastFrame(SelfMac, 1, HI), MacB)}

\* Scans that make MacA and MacB peers and drop them again.
RouteScans ==
    {<<>>, <<AP(TRUE, MacA, -60)>>, <<AP(TRUE, MacB, -70)>>,
     <<AP(TRUE, MacA, -60), AP(TRUE, MacB, -70)>>}

NextRoute ==
    \/ \E in \in RouteInputs : Receive(in.frame, in.mac)
    \/ \E aps \in RouteScans, stack \in UniformStacks : ScanDone(aps, "OK", stack)
    \/ last_message_id < MaxSends /\ \E message \in {HI} : Send(message)
    \/ last_message_id < MaxSends
       /\ \E message \in {HI}, target \in {MacB, MacC} : SendTo(message, target)

\* Originated and relayed sends of one node whose peer list changes.
SpecRoute == Init /\ [][NextRoute]_vars

\* The last operation ran sendTargeted (for an originated or a relayed frame).
TargetedSendMade ==
    \/ op = "sendTo"
    \/ /\ op = "receive" /\ outcome = "stored"
       /\ last.frame.kind = 2 /\ last.frame.target # SelfMac

\* The slots of the ledger that name the target as originator or sender.
MatchingSlots(target) ==
    {i \in 0..(STORED_MESSAGES - 1) :
        message_store[i].originator = target \/ message_store[i].sender = target}

\* C7: a frame is unicast only to a neighbour that is a peer when it is sent;
\* when the sender of every ledger entry matching the target is no peer, the
\* frame is broadcast.
C7_UnicastOnlyToActivePeer ==
    /\ \A i \in DOMAIN tx : tx[i].target # NULL => tx[i].target \in peers
    /\ (TargetedSendMade
          /\ \A i \in MatchingSlots(last.frame.target) :
                message_store[i].sender \notin peers)
       => (Len(tx) = 1 /\ tx[1].target = NULL)

C7_Witness ==
    /\ TargetedSendMade
    /\ peers # {}
    /\ \E i \in MatchingSlots(last.frame.target) : message_store[i].id > 0
    /\ \A i \in MatchingSlots(last.frame.target) : message_store[i].sender \notin peers
    /\ tx[1].target = NULL

\* A targeted frame went out as a unicast to a peer.
UnicastMade == TargetedSendMade /\ tx[1].target # NULL

\* The ledger slots that offer a route to the target: they name it as
\* originator or sender and their sender is a peer.
RouteSlots(target) ==
    {i \in MatchingSlots(target) : message_store[i].sender \in peers}

\* C17: sendTargeted makes exactly one radio send; when some ledger entry
\* offers a route to the target, the frame is unicast to the sender of the
\* most recently inserted such entry (the one at the lowest index), otherwise
\* it is broadcast.
C17_RouteIsNewestMatchingEntry ==
    TargetedSendMade =>
        /\ Len(tx) = 1
        /\ tx[1].target =
              IF RouteSlots(last.frame.target) = {} THEN NULL
              ELSE message_store[CHOOSE i \in RouteSlots(last.frame.target) :
                                    \A j \in RouteSlots(last.frame.target) : i <= j].sender

\* C19: every read and write of message_store an operation makes uses an
\* index in 0..STORED_MESSAGES-1.
C19_LedgerIndexInBounds == mem.index <= STORED_MESSAGES - 1

\* ---------------------------------------------------------------- codec
CodecMacs == {MacA, MacB, <<255, 0, 255, 0, 1, 100>>}

CodecIds == {0, 1, 65535}

CodecPayloads == {HI, <<>>, <<"7">>, LongPayload(12)}

\* Valid frames: kind 1 or 2, bytes 0..255, target zero for Broadcast, id
\* 0..65535, a comma-free payload, within the maximum length.
CodecFrames ==
    {f \in {BroadcastFrame(o, n, p) : o \in CodecMacs, n \in CodecIds,
                                      p \in CodecPayloads}
           \cup {TargetedFrame(x[1], x[2], n, p) :
                    x \in CodecMacs \X {SelfMac, MacC}, n \in CodecIds,
                    p \in CodecPayloads} :
        Len(Encode(f)) < MAX_MSG_LEN}

InitCodec ==
    /\ message_store = EmptyStore
    /\ peers = {}
    /\ last_message_id = 0
    /\ op = "init"
    /\ last = NoLast
    /\ outcome = "none"
    /\ cb = <<>>
    /\ tx = <<>>
    /\ scan = NoScan
    /\ admitted = <<>>
    /\ codec \in {[NoCodec EXCEPT !.stage = "frame", !.frame = f] : f \in CodecFrames}
    /\ mem = NoMem
    /\ mesh = NoMesh
    /\ async = NoAsync
    /\ app = AppReady

\* The originating node formats the frame (sendBroadcast / sendTargeted).
CodecEncode ==
    /\ codec.stage = "frame"
    /\ codec' = [codec EXCEPT !.stage = "encoded", !.data = Encode(codec.frame)]
    /\ UNCHANGED <<message_store, peers, last_message_id, op, last, outcome, cb, tx,
                   scan, admitted, mem, mesh, async, app>>

\* The receiving node tokenizes the bytes and assigns the fields (receiveData).
CodecDecode ==
    /\ codec.stage = "encoded"
    /\ \E tokens \in {Strtok(codec.data)} :
          codec' = [codec EXCEPT !.stage = "decoded", !.pos = Len(tokens),
                       !.fields = IF Len(tokens) >= 15 THEN ParseFields(tokens)
                                  ELSE NoFields]
    /\ UNCHANGED <<message_store, peers, last_message_id, op, last, outcome, cb, tx,
                   scan, admitted, mem, mesh, async, app>>

NextCodec == CodecEncode \/ CodecDecode

\* A frame through the encoder of one node and the tokenizer of another.
SpecCodec == InitCodec /\ [][NextCodec]_vars

\* C9: every valid frame comes back from the encoder and the tokenizer with
\* exactly 15 tokens and its kind, originator, target, id and payload.
C9_RoundTrip ==
    codec.stage = "decoded" =>
        /\ codec.pos = 15
        /\ codec.fields.message_type = codec.frame.kind
        /\ codec.fields.originator = codec.frame.originator
        /\ codec.fields.target = codec.frame.target
        /\ codec.fields.message_id = codec.frame.id
        /\ codec.fields.message = codec.frame.payload

\* ------------------------------------------------------- discovery claims
\* Deliveries that leave history: MacA as originator and sender of one entry,
\* MacA as originator and MacB as sender of another, MacB with id 0.
ScanInputs ==
    {Rx(BroadcastFrame(MacA, 1, HI), MacA),
     Rx(BroadcastFrame(MacA, 2, HI), MacB),
     Rx(BroadcastFrame(MacB, 0, HI), MacB)}

\* Found access points: strong and weak ones and one at the rssi floor.
ApPool ==
    {AP(TRUE, MacA, -40), AP(TRUE, MacB, -90), AP(TRUE, MacC, -128),
     AP(TRUE, MacC, 30)}

\* Scan results: up to MaxAPs access points with different bssids.
ScanLists ==
    UNION {{aps \in [1..n -> ApPool] :
               \A i, j \in 1..n : i # j => aps[i].bssid # aps[j].bssid} :
           n \in 0..MaxAPs}

NextScan ==
    \/ \E in \in ScanInputs : Receive(in.frame, in.mac)
    \/ \E aps \in ScanLists, stack \in UniformStacks : ScanDone(aps, "OK", stack)
    \/ \E aps \in {<<>>, <<AP(TRUE, MacA, -40)>>}, stack \in UniformStacks :
          ScanDone(aps, "FAIL", stack)

\* Discovery cycles of one node with some traffic history.
SpecScan == Init /\ [][NextScan]_vars

\* 128 - |rssi| plus 20 for every ledger slot naming the bssid.
ExpectedScore(ap) ==
    128 - Abs(ap.rssi)
    + 20 * Cardinality({i \in 0..(STORED_MESSAGES - 1) :
                           message_store[i].originator = ap.bssid
                           \/ message_store[i].sender = ap.bssid})

\* C10: the score computed for each candidate of a discovery cycle is
\* 128 - |rssi| plus 20 per ledger entry whose originator or sender is the
\* candidate, over the ledger as it is at the cycle, and it fits an int16_t.
C10_ScoreIsSignalPlusHistory ==
    (op = "scan" /\ scan.status = "OK") =>
        \A k \in DOMAIN scan.aps :
            scan.aps[k].esp =>
                /\ scan.scores[k] = ExpectedScore(scan.aps[k])
                /\ ExpectedScore(scan.aps[k]) \in -32768..32767

C10_Witness ==
    /\ op = "scan" /\ scan.status = "OK"
    /\ \E k \in DOMAIN scan.aps :
          /\ scan.aps[k].esp
          /\ scan.scores[k] = 128 - Abs(scan.aps[k].rssi) + 40

\* The slots of a peer table that hold an entry (the code's test for a free
\* slot is score <= 0).
Occupied(peer_store) == {i \in 0..(MAX_PEERS - 1) : peer_store[i].score > 0}

\* The replacement policy of the claim for one candidate: the first free slot
\* while there is one; else the slot with the lowest score, when the
\* candidate's score is strictly greater; else no slot (-1).
PolicySlot(peer_store, score) ==
    LET free == (0..(MAX_PEERS - 1)) \ Occupied(peer_store)
        lowest == CHOOSE i \in Occupied(peer_store) :
                      \A j \in Occupied(peer_store) :
                          \/ peer_store[i].score < peer_store[j].score
                          \/ peer_store[i].score = peer_store[j].score /\ i <= j
    IN  IF free # {} THEN CHOOSE i \in free : \A j \in free : i <= j
        ELSE IF score > peer_store[lowest].score THEN lowest
        ELSE -1

\* The peer table that policy builds from the candidates aps[k..], scored as
\* the cycle scored them.
RECURSIVE PolicyTable(_, _, _, _)
PolicyTable(peer_store, aps, scores, k) ==
    IF k > Len(aps) THEN peer_store
    ELSE IF ~aps[k].esp THEN PolicyTable(peer_store, aps, scores, k + 1)
    ELSE LET slot == PolicySlot(peer_store, scores[k])
         IN  PolicyTable(IF slot >= 0
                         THEN [peer_store EXCEPT
                                  ![slot] = [mac |-> aps[k].bssid, score |-> scores[k]]]
                         ELSE peer_store,
                         aps, scores, k + 1)

\* C14: within one discovery cycle whose table starts out empty, a candidate
\* takes a free slot while there is one; with no free slot a candidate whose
\* score is strictly greater than the lowest score in the table replaces that
\* entry, and a candidate with a lower or equal score changes nothing.
C14_CandidateReplacesLowest ==
    (op = "scan" /\ scan.status = "OK" /\ scan.stack = ZeroedStack) =>
        scan.peer_store = PolicyTable(scan.stack, scan.aps, scan.scores, 1)

\* The neighbour addresses a peer table holds.
TableIds(peer_store) == {peer_store[i].mac : i \in Occupied(peer_store)}

\* The addresses found anywhere in a peer table, slots the code takes for
\* free included.
WrittenIds(peer_store) ==
    {peer_store[i].mac : i \in 0..(MAX_PEERS - 1)} \ {ZeroMac}

\* The addresses in a peer table that are candidates of the cycle.
StoredIds(peer_store, aps) ==
    WrittenIds(peer_store) \cap {aps[k].bssid : k \in {j \in DOMAIN aps : aps[j].esp}}

ScanKeepsBounds ==
    [][op' = "scan" =>
          /\ Cardinality(peers') <= MAX_PEERS
          /\ scan'.status # "OK" => (peers' = peers /\ message_store' = message_store)]_vars

\* C16: no two occupied ledger slots (id > 0) hold the same
\* (originator, id) key, whatever frames with ids 0..65535 were received.
C16_LedgerKeysUnique ==
    \A i, j \in 0..(STORED_MESSAGES - 1) :
        (i < j /\ message_store[i].id > 0 /\ message_store[j].id > 0) =>
            <<message_store[i].originator, message_store[i].id>> #
                <<message_store[j].originator, message_store[j].id>>

\* The last operation was one of the two send overloads.
SendMade == op \in {"send", "sendTo"}

\* C13 as stated: every originated send leaves a ledger entry with
\* originator = self, sender = self and the new id.
C13_SendRecordsLedgerEntry ==
    SendMade =>
        \E i \in 0..(STORED_MESSAGES - 1) :
            message_store[i] = [originator |-> SelfMac, sender |-> SelfMac,
                                id |-> last_message_id]

\* C13 (amended): an originated send leaves every ledger slot as it was and
\* hands one frame to the radio; the echo of an own frame is recognised by
\* its originator field and dropped without ledger entry, callback or send.
C13_SendLeavesLedgerAlone ==
    [][/\ op' \in {"send", "sendTo"} =>
            (message_store' = message_store /\ Len(tx') = 1)
       /\ (op' = "receive" /\ PassesValidation(last'.frame)
              /\ last'.frame.originator = SelfMac) =>
            (outcome' = "self_echo" /\ message_store' = message_store
               /\ cb' = <<>> /\ tx' = <<>>)]_vars

C13_Witness ==
    /\ op = "send"
    /\ admitted # <<>>
    /\ \A i \in 0..(STORED_MESSAGES - 1) : message_store[i].originator # SelfMac

\* ---------------------------------------------------------------- buffers
\* The Broadcast frame of originator o and id n whose encoding is len
\* characters long.
FrameOfLength(o, n, len) ==
    BroadcastFrame(o, n, LongPayload(len - Len(Encode(BroadcastFrame(o, n, <<>>)))))

\* Deliveries at the length limit: frames of MAX_MSG_LEN - 1, MAX_MSG_LEN and
\* MAX_MSG_LEN + 1 characters, a short one, and a Targeted frame to relay.
BufInputs ==
    {Rx(FrameOfLength(o, 1, len), o) :
        o \in {MacA, MacB}, len \in (MAX_MSG_LEN - 1)..(MAX_MSG_LEN + 1)}
    \cup {Rx(BroadcastFrame(MacA, 2, HI), MacB),
          Rx(TargetedFrame(MacB, MacC, 3, HI), MacB)}

NextBuf ==
    \/ \E in \in BufInputs : Receive(in.frame, in.mac)
    \/ \E aps \in RxScans, stack \in UniformStacks : ScanDone(aps, "OK", stack)

\* Receipts of frames around the maximum length.
SpecBuf == Init /\ [][NextBuf]_vars

\* C20: for every received frame that passes the length check, the bytes
\* strcpy writes to received_buffer (terminator included) fit its
\* MAX_MSG_LEN bytes, and so do the bytes sprintf writes to data[] when the
\* frame is forwarded.
C20_BuffersHoldTheFrame ==
    op = "receive" =>
        /\ mem.rx_bytes <= MAX_MSG_LEN
        /\ mem.tx_bytes <= MAX_MSG_LEN

\* --------------------------------------------------------------- flooding
\* The copies on the air after node n called esp_now_send for the frames in
\* sends: one per peer for the target NULL, else one for the target.
OnAir(n, sends) ==
    IF sends = <<>> THEN EmptyBag
    ELSE SetToBag({[from |-> n, to |-> t, data |-> sends[1].data] :
                      t \in IF sends[1].target = NULL THEN MeshPeers(n)
                            ELSE {sends[1].target} \cap MeshPeers(n)})

\* How many sends the originating node made before this one: none, one, or
\* as many as bring its 16-bit counter round to 0.
SentBefore == {0, 1, 65535}

\* SelfMac calls send(message) once; its id follows from its counter.
MeshOriginate(before) ==
    /\ ~mesh.sent
    /\ mesh' = [mesh EXCEPT
                   !.sent = TRUE,
                   !.air = OnAir(SelfMac,
                                 <<sendBroadcast(HI, SelfMac, ToUint16(before + 1))>>)]
    /\ UNCHANGED <<message_store, peers, last_message_id, op, last, outcome, cb, tx,
                   scan, admitted, codec, mem, async, app>>

\* The radio hands one copy on the air to the receiveData of its addressee.
MeshDeliver(p) ==
    /\ mesh.steps < MaxMeshSteps
    /\ BagIn(p, mesh.air)
    /\ \E r \in {receiveData(p.to, mesh.store[p.to], MeshPeers(p.to), p.from, p.data)} :
          mesh' = [mesh EXCEPT
                      !.store[p.to] = r.store,
                      !.air = (mesh.air (-) SetToBag({p})) (+) OnAir(p.to, r.tx),
                      !.forwards[p.to] = @ + Len(r.tx),
                      !.deliveries[p.to] = @ + Len(r.cb),
                      !.steps = @ + 1]
    /\ UNCHANGED <<message_store, peers, last_message_id, op, last, outcome, cb, tx,
                   scan, admitted, codec, mem, async, app>>

NextMesh ==
    \/ \E before \in SentBefore : MeshOriginate(before)
    \/ \E p \in BagToSet(mesh.air) : MeshDeliver(p)

\* One Broadcast frame flooding a mesh of three nodes.
SpecMesh == Init /\ [][NextMesh]_vars

\* C12: when one node originates a single Broadcast frame, with any id in
\* 0..65535, every other node forwards it at most once and delivers it at
\* most once, and the originator neither forwards nor delivers its echo.
C12_FloodedOnce ==
    /\ \A n \in MeshNodes \ {SelfMac} :
          mesh.forwards[n] <= 1 /\ mesh.deliveries[n] <= 1
    /\ mesh.forwards[SelfMac] = 0
    /\ mesh.deliveries[SelfMac] = 0

\* ------------------------------------------------ asynchronous callbacks
\* receiveData and scanDoneCallback take no lock and mask no interrupt. When
\* the radio driver delivers its notifications asynchronously, a scan-done
\* notification can arrive between any two statements of a running
\* receiveData; the steps below are the iterations of its shift loop.

\* receiveData runs up to its shift loop: checks, dedup scan, msg_i. A frame
\* it drops is dropped at once.
AsyncBegin(f, mac) ==
    /\ async.pc = "idle"
    /\ \E r \in {receiveData(SelfMac, message_store, peers, mac, Encode(f))} :
          IF r.outcome # "stored" THEN Receive(f, mac)
          ELSE /\ async' = [pc |-> "shift",
                            msg_i |-> ShiftLastIndex(DedupScan(message_store,
                                                      f.originator, f.id, 0)),
                            top |-> DedupScan(message_store, f.originator, f.id, 0),
                            entry |-> r.store[0], frame |-> f,
                            before |-> message_store]
               /\ op' = "receive_begin"
               /\ last' = [NoLast EXCEPT !.mac = mac, !.frame = f]
               /\ outcome' = "none"
               /\ cb' = <<>>
               /\ tx' = <<>>
               /\ scan' = NoScan
               /\ mem' = NoMem
               /\ UNCHANGED <<message_store, peers, last_message_id, admitted,
                              codec, mesh, app>>

\* One iteration of for (; msg_i > 0; msg_i--): the slot msg_i - 1 is copied
\* to the slot msg_i.
AsyncShift ==
    /\ async.pc = "shift"
    /\ async.msg_i > 0
    /\ message_store' = [message_store EXCEPT
                            ![async.msg_i] = message_store[async.msg_i - 1]]
    /\ async' = [async EXCEPT !.msg_i = @ - 1]
    /\ op' = "shift"
    /\ scan' = NoScan
    /\ UNCHANGED <<peers, last_message_id, last, outcome, cb, tx, admitted, codec,
                   mem, mesh, app>>

\* The loop is over: the message is stored at index 0, forwarded and
\* delivered, and receiveData returns.
AsyncStore ==
    /\ async.pc = "shift"
    /\ async.msg_i = 0
    /\ \E f \in {ParseFields(Strtok(Encode(async.frame)))},
          stored \in {[message_store EXCEPT ![0] = async.entry]} :
          /\ message_store' = stored
          /\ cb' = Deliver(SelfMac, f)
          /\ tx' = Forward(SelfMac, stored, peers, f)
          /\ mem' = [index |-> Max2(ShiftLastIndex(async.top),
                                    ForwardLastIndex(SelfMac, stored, peers, f)),
                     rx_bytes |-> StrcpyBytes(Encode(async.frame)),
                     tx_bytes |-> SprintfBytes(tx')]
    /\ async' = [async EXCEPT !.pc = "idle"]
    /\ op' = "receive"
    /\ outcome' = "stored"
    /\ scan' = NoScan
    /\ admitted' = SubSeq(<<async.entry>> \o admitted, 1,
                          IF Len(admitted) < STORED_MESSAGES
                          THEN Len(admitted) + 1 ELSE STORED_MESSAGES)
    /\ UNCHANGED <<peers, last_message_id, last, codec, mesh, app>>

\* Deliveries of three different messages over two neighbours.
AsyncInputs ==
    {Rx(BroadcastFrame(MacA, 1, HI), MacA),
     Rx(BroadcastFrame(MacB, 2, HI), MacB),
     Rx(BroadcastFrame(MacA, 3, HI), MacB)}

NextAsync ==
    \/ \E in \in AsyncInputs : AsyncBegin(in.frame, in.mac)
    \/ AsyncShift
    \/ AsyncStore
    \/ \E aps \in {<<AP(TRUE, MacA, -40)>>}, stack \in UniformStacks :
          ScanDone(aps, "OK", stack)

\* receiveData in steps, with scan-done notifications arriving at any time.
SpecAsync == Init /\ [][NextAsync]_vars

\* The ledger a completed receiveData leaves is the one its shift and store
\* produce in one piece.
AsyncStoreAgrees ==
    (op = "receive" /\ outcome = "stored") =>
        message_store = ShiftAndStore(async.before, async.top, async.entry)

\* C18: the scoring pass of a discovery cycle never sees the ledger in the
\* middle of an insertion: the ledger it scores is the one before the
\* receiveData in progress began or the one after its insertion.
C18_ScoringSeesWholeInsertions ==
    (op = "scan" /\ scan.status = "OK" /\ async.pc = "shift") =>
        \/ message_store = async.before
        \/ message_store = ShiftAndStore(async.before, async.top, async.entry)

\* ------------------------------------------------------------ message ids
\* A session of originated sends only: every call of send(message) and of
\* send(message, target) the 16-bit counter allows, wrap included.
NextIds ==
    \/ \E message \in {HI} : Send(message)
    \/ \E message \in {HI}, target \in {MacB} : SendTo(message, target)

SpecIds == Init /\ [][NextIds]_vars

\* C11: every originated send uses an id strictly greater than the id of the
\* send before it (the first one greater than 0), so that ids never repeat.
C11_IdsStrictlyIncrease ==
    [][op' \in {"send", "sendTo"} => last'.frame.id > last_message_id]_vars

\* -------------------------------------------------------------- lifecycle
\* NowMesh::begin(): when esp_now_init() succeeds (ok), sendData and
\* receiveData are registered with the radio driver; nothing unregisters them.
Begin(ok) ==
    /\ app.empty_call = "none"
    /\ app' = [app EXCEPT !.begun = @ \/ ok]
    /\ op' = "begin"
    /\ last' = NoLast
    /\ outcome' = "none"
    /\ cb' = <<>>
    /\ tx' = <<>>
    /\ scan' = NoScan
    /\ mem' = NoMem
    /\ UNCHANGED <<message_store, peers, last_message_id, admitted, codec, mesh,
                   async>>

\* NowMesh::setReceiveCallback(callback)
SetReceiveCallback ==
    /\ ~app.receive_set
    /\ app.empty_call = "none"
    /\ app' = [app EXCEPT !.receive_set = TRUE]
    /\ UNCHANGED <<message_store, peers, last_message_id, op, last, outcome, cb, tx,
                   scan, admitted, codec, mem, mesh, async>>

\* NowMesh::setSendCallback(callback)
SetSendCallback ==
    /\ ~app.send_set
    /\ app.empty_call = "none"
    /\ app' = [app EXCEPT !.send_set = TRUE]
    /\ UNCHANGED <<message_store, peers, last_message_id, op, last, outcome, cb, tx,
                   scan, admitted, codec, mem, mesh, async>>

\* NowMesh::sendData(mac_addr, status): the radio driver reports that a send
\* of the last operation has completed; sendCallback(status) is called as it
\* is, set or empty.
SendDone ==
    /\ app.begun
    /\ app.empty_call = "none"
    /\ tx # <<>>
    /\ app' = [app EXCEPT !.empty_call = IF ~app.send_set THEN "sendCallback" ELSE @]
    /\ op' = "send_done"
    /\ last' = NoLast
    /\ outcome' = "none"
    /\ cb' = <<>>
    /\ tx' = <<>>
    /\ scan' = NoScan
    /\ mem' = NoMem
    /\ UNCHANGED <<message_store, peers, last_message_id, admitted, codec, mesh,
                   async>>

\* Deliveries after begin(): a Broadcast frame, a frame targeted at this
\* node, a frame to relay and the echo of an own frame.
LifeInputs ==
    {Rx(BroadcastFrame(MacA, 1, HI), MacA),
     Rx(TargetedFrame(MacB, SelfMac, 2, HI), MacB),
     Rx(TargetedFrame(MacB, MacC, 3, HI), MacB),
     Rx(BroadcastFrame(SelfMac, 1, HI), MacA)}

\* The application calls begin(), the setters and send() in any order (send()
\* is taken up once the radio is started); once begin() has registered them,
\* the radio callbacks run whenever the driver has something to report. A
\* call of an empty std::function ends the run.
NextLife ==
    \/ \E ok \in BOOLEAN : Begin(ok)
    \/ SetReceiveCallback
    \/ SetSendCallback
    \/ \E in \in LifeInputs : Receive(in.frame, in.mac)
    \/ SendDone
    \/ /\ app.begun /\ app.empty_call = "none" /\ last_message_id < MaxSends
       /\ \E message \in {HI} : Send(message)

\* State after construction, before setup() has run.
InitLife == InitNode /\ app = AppConstructed

SpecLife == InitLife /\ [][NextLife]_vars

\* C21: receiveCallback and sendCallback are never called before they have
\* been set, whatever the order of begin(), the setters and the
\* notifications of the radio driver.
C21_NoEmptyCallbackCalled == app.empty_call = "none"

====
